---- MODULE Spec2Model ----
(***************************************************************************)
(* Model of the multi-tool dashboard host (src/app.py): discovery of the   *)
(* code*.py tool modules, validation, metadata extraction, ordering, the   *)
(* cached registry and the dispatch of the selected tool.                  *)
(*                                                                         *)
(* Python strings are sequences of one-character strings, so that slicing, *)
(* str.replace, str.title, the regular expression of extract_code_number   *)
(* and the code-point order used by sorted() are computed, not assumed.    *)
(***************************************************************************)
EXTENDS Integers, Sequences, FiniteSets, TLC

\* ------------------------------------------------------------------ bounds
\* At most this many code*.py files in the script directory.
MaxFiles == 3
\* At most this many request cycles (calls of main) in one host lifetime.
MaxCycles == 3
\* Longest tail after "code" of the file names fed to extract_code_number.
MaxTail == 3
\* At most this many sessions (browser tabs) of the host at a time.
MaxSessions == 2
\* At most this many tool modules in a directory served to several sessions.
MaxSharedFiles == 2

\* ------------------------------------------------------- Python strings
\* The characters file names, module names and display names are made of.
Digits == <<"0", "1", "2", "3", "4", "5", "6", "7", "8", "9">>
Uppers == <<"A", "B", "C", "D", "E", "F", "G", "H", "I", "J", "K", "L", "M",
            "N", "O", "P", "Q", "R", "S", "T", "U", "V", "W", "X", "Y", "Z">>
Lowers == <<"a", "b", "c", "d", "e", "f", "g", "h", "i", "j", "k", "l", "m",
            "n", "o", "p", "q", "r", "s", "t", "u", "v", "w", "x", "y", "z">>

\* The code point of each of these characters.
CodePoint ==
  [c \in {" ", ".", "_"} \cup {Digits[i] : i \in 1..10}
         \cup {Uppers[i] : i \in 1..26} \cup {Lowers[i] : i \in 1..26} |->
     CASE c = " " -> 32
       [] c = "." -> 46
       [] c = "_" -> 95
       [] \E i \in 1..10 : Digits[i] = c -> 47 + (CHOOSE i \in 1..10 : Digits[i] = c)
       [] \E i \in 1..26 : Uppers[i] = c -> 64 + (CHOOSE i \in 1..26 : Uppers[i] = c)
       [] \E i \in 1..26 : Lowers[i] = c -> 96 + (CHOOSE i \in 1..26 : Lowers[i] = c)]

\* ord(c)
Ord(c) == CodePoint[c]

IsDigit(c) == Ord(c) >= 48 /\ Ord(c) <= 57
IsUpper(c) == Ord(c) >= 65 /\ Ord(c) <= 90
IsLower(c) == Ord(c) >= 97 /\ Ord(c) <= 122
IsCased(c) == IsUpper(c) \/ IsLower(c)
ToUpper(c) == IF IsLower(c) THEN Uppers[Ord(c) - 96] ELSE c
ToLower(c) == IF IsUpper(c) THEN Lowers[Ord(c) - 64] ELSE c

\* a < b for two str values: lexicographic by code point.
RECURSIVE StrLess(_, _)
StrLess(a, b) ==
  IF b = <<>> THEN FALSE
  ELSE IF a = <<>> THEN TRUE
  ELSE IF Head(a) # Head(b) THEN Ord(Head(a)) < Ord(Head(b))
  ELSE StrLess(Tail(a), Tail(b))

\* s.startswith(p) and s.endswith(p).
StartsWith(s, p) == Len(s) >= Len(p) /\ SubSeq(s, 1, Len(p)) = p
EndsWith(s, p) == Len(s) >= Len(p) /\ SubSeq(s, Len(s) - Len(p) + 1, Len(s)) = p

\* s.replace(old, new) for single characters.
Replace(s, old, new) == [i \in 1..Len(s) |-> IF s[i] = old THEN new ELSE s[i]]

\* s.title(): a cased character is upper-cased when the character before it
\* is not cased, lower-cased when it is; other characters are kept.
Title(s) ==
  [i \in 1..Len(s) |->
     IF ~IsCased(s[i]) THEN s[i]
     ELSE IF i > 1 /\ IsCased(s[i - 1]) THEN ToLower(s[i]) ELSE ToUpper(s[i])]

\* int(s) for a non-empty string of decimal digits.
RECURSIVE ParseInt(_)
ParseInt(s) ==
  IF s = <<>> THEN 0
  ELSE 10 * ParseInt(SubSeq(s, 1, Len(s) - 1)) + (Ord(s[Len(s)]) - 48)

\* ------------------------------------------------- configuration constants
MODULE_PATTERN_PREFIX == <<"c", "o", "d", "e">>
MODULE_PATTERN_SUFFIX == <<".", "p", "y">>
DEFAULT_TOOL_ORDER == 999
\* What extract_code_number returns when the name carries no number.
NoNumber == 999999

\* --------------------------------------------------- extract_code_number
\* The positions where the pattern code(\d+) matches: "code" followed by
\* at least one digit.
MatchStarts(filename) ==
  {i \in 1..Len(filename) :
     /\ i + 4 <= Len(filename)
     /\ SubSeq(filename, i, i + 3) = <<"c", "o", "d", "e">>
     /\ IsDigit(filename[i + 4])}

\* The end of the greedy run of digits that starts at position p.
DigitsEnd(filename, p) ==
  CHOOSE j \in p..Len(filename) :
    /\ \A k \in p..j : IsDigit(filename[k])
    /\ (j = Len(filename) \/ ~IsDigit(filename[j + 1]))

\* re.search takes the leftmost match; group 1 is its run of digits.
extract_code_number(filename) ==
  IF MatchStarts(filename) = {} THEN NoNumber
  ELSE LET i == CHOOSE m \in MatchStarts(filename) :
                  \A n \in MatchStarts(filename) : m <= n
       IN ParseInt(SubSeq(filename, i + 4, DigitsEnd(filename, i + 4)))

\* ---------------------------------------------------------- Python values
\* The value of a module attribute: absent, an int or a str.
Absent == [t |-> "absent", i |-> 0, s |-> <<>>]
PyInt(n) == [t |-> "int", i |-> n, s |-> <<>>]
PyStr(x) == [t |-> "str", i |-> 0, s |-> x]

\* getattr(module, attr, default).
GetAttr(v, default) == IF v.t = "absent" THEN default ELSE v

\* a == b for two values: values of different types are never equal.
PyEq(a, b) == a.t = b.t /\ a.i = b.i /\ a.s = b.s

\* Whether a < b is defined: int and str do not compare with each other.
PyComparable(a, b) == a.t = b.t

\* a < b for two values of the same type.
PyLess(a, b) == IF a.t = "int" THEN a.i < b.i ELSE StrLess(a.s, b.s)

\* ------------------------------------------------------------- exceptions
\* An exception is its class name and its message, str(e).
NoExc == [type |-> "", msg |-> ""]
Exc(type, msg) == [type |-> type, msg |-> msg]

\* The classes that derive from Exception; SystemExit and KeyboardInterrupt
\* derive from BaseException only.
ExceptionClasses ==
  {"ImportError", "AttributeError", "ValueError", "TypeError", "OSError"}

\* Whether "except Exception" catches e.
CaughtByExceptException(e) == e.type \in ExceptionClasses

\* ------------------------------------------------------ the tool modules
\* What importing a module gives: the exception raised by the import (NoExc
\* when it returns), whether the module has an attribute run and whether it
\* is callable, and the three optional declarations.
ModuleDef(imp, run, name, desc, order) ==
  [imp |-> imp, run |-> run, TOOL_NAME |-> name,
   TOOL_DESCRIPTION |-> desc, TOOL_ORDER |-> order]

ImportFails == ModuleDef(Exc("ImportError", "No module named 'requests'"),
                         "absent", Absent, Absent, Absent)
ImportExits == ModuleDef(Exc("SystemExit", "1"), "absent", Absent, Absent, Absent)
NoRun == ModuleDef(NoExc, "absent", PyStr(<<"Z">>), Absent, PyInt(1))
RunNotCallable == ModuleDef(NoExc, "notcallable", PyStr(<<"Z">>), Absent, PyInt(1))
Plain == ModuleDef(NoExc, "callable", Absent, Absent, Absent)
ToolZ1 == ModuleDef(NoExc, "callable", PyStr(<<"Z">>), PyStr(<<"d">>), PyInt(1))
ToolZ == ModuleDef(NoExc, "callable", PyStr(<<"Z">>), Absent, Absent)
ToolEmptyName == ModuleDef(NoExc, "callable", PyStr(<<>>), PyStr(<<>>), PyInt(5))
ToolStrOrder == ModuleDef(NoExc, "callable", Absent, Absent, PyStr(<<"1">>))

ModuleDefs ==
  {ImportFails, ImportExits, NoRun, RunNotCallable, Plain, ToolZ1, ToolZ,
   ToolEmptyName, ToolStrOrder}

\* The code*.py names a script directory may hold.
F_code2 == <<"c", "o", "d", "e", "2", ".", "p", "y">>
F_code10 == <<"c", "o", "d", "e", "1", "0", ".", "p", "y">>
F_code10_b == <<"c", "o", "d", "e", "1", "0", "_", "b", ".", "p", "y">>
F_code_app_5 == <<"c", "o", "d", "e", "_", "a", "p", "p", "_", "5", ".", "p", "y">>
ToolFiles == {F_code2, F_code10, F_code10_b, F_code_app_5}

\* Entries of the script directory that are not tool modules: the host
\* script itself and a data file.
F_app == <<"a", "p", "p", ".", "p", "y">>
F_code_txt == <<"c", "o", "d", "e", "1", ".", "t", "x", "t">>
OtherFiles == {F_app, F_code_txt}

\* All orders in which a finite set can be listed.
RECURSIVE Listings(_)
Listings(S) ==
  IF S = {} THEN {<<>>}
  ELSE UNION {{<<x>> \o l : l \in Listings(S \ {x})} : x \in S}

\* ------------------------------------------------------------ load errors
\* A load error is the formatted message: its wording, the module name put
\* in it and, for a failed import, str(e).  The source's wordings start with
\* a warning sign (missing run, run not callable) or a cross mark (failed
\* import); the two symbols are not ASCII and are left out here.
MissingRunError(module_name) ==
  [fmt |-> "Module '{}' missing required 'run()' function",
   name |-> module_name, detail |-> ""]
\* NotCallableError with the wording of the missing entry point.
NotCallableErrorMerged(module_name) == MissingRunError(module_name)

NotCallableError(module_name) ==
  [fmt |-> "Module '{}' has 'run' but it's not callable",
   name |-> module_name, detail |-> ""]
FailedToLoadError(module_name, e) ==
  [fmt |-> "Failed to load '{}': {}", name |-> module_name, detail |-> e.msg]

\* ------------------------------------------------------- the modules dict
\* A dict is the sequence of its items in insertion order.
DictKeys(d) == [i \in 1..Len(d) |-> d[i].key]
DictHas(d, k) == \E i \in 1..Len(d) : d[i].key = k
DictGet(d, k) == d[CHOOSE i \in 1..Len(d) : d[i].key = k].value

\* DictSet that keeps the first value of a key (d.setdefault(k, v)).
DictSetFirstWins(d, k, v) ==
  IF DictHas(d, k) THEN d ELSE Append(d, [key |-> k, value |-> v])

\* d[k] = v: an existing key keeps its place and takes the new value, a new
\* key goes last.
DictSet(d, k, v) ==
  IF DictHas(d, k)
  THEN [i \in 1..Len(d) |-> IF d[i].key = k THEN [key |-> k, value |-> v] ELSE d[i]]
  ELSE Append(d, [key |-> k, value |-> v])

\* --------------------------------------------------------------- ordering
\* The sort key of an item: (code_number, order, display name).  Comparing
\* two keys compares the first components that differ; an int and a str
\* there make the comparison raise TypeError.
KeyComparable(a, b) ==
  (a.value.code_number = b.value.code_number /\ ~PyEq(a.value.order, b.value.order))
    => PyComparable(a.value.order, b.value.order)

\* KeyLess with the declared order before the code number.
KeyLessOrderFirst(a, b) ==
  IF ~PyEq(a.value.order, b.value.order)
  THEN PyLess(a.value.order, b.value.order)
  ELSE IF a.value.code_number # b.value.code_number
  THEN a.value.code_number < b.value.code_number
  ELSE StrLess(a.key, b.key)

KeyLess(a, b) ==
  IF a.value.code_number # b.value.code_number
  THEN a.value.code_number < b.value.code_number
  ELSE IF ~PyEq(a.value.order, b.value.order)
  THEN PyLess(a.value.order, b.value.order)
  ELSE StrLess(a.key, b.key)

\* Insert x into the sorted sequence s behind the items that are not greater;
\* ok is FALSE when a comparison made on the way raises.
RECURSIVE InsertByKey(_, _)
InsertByKey(x, s) ==
  IF s = <<>> THEN [ok |-> TRUE, items |-> <<x>>]
  ELSE IF ~KeyComparable(x, Head(s)) THEN [ok |-> FALSE, items |-> <<>>]
  ELSE IF KeyLess(x, Head(s)) THEN [ok |-> TRUE, items |-> <<x>> \o s]
  ELSE LET r == InsertByKey(x, Tail(s))
       IN [ok |-> r.ok, items |-> IF r.ok THEN <<Head(s)>> \o r.items ELSE <<>>]

\* sorted(modules.items(), key=...): a stable sort by the key.
RECURSIVE SortByKey(_)
SortByKey(items) ==
  IF items = <<>> THEN [ok |-> TRUE, items |-> <<>>]
  ELSE LET n == Len(items)
           r == SortByKey(SubSeq(items, 1, n - 1))
       IN IF r.ok THEN InsertByKey(items[n], r.items) ELSE r

\* sorted(module_files): file names in code-point order.
RECURSIVE InsertName(_, _)
InsertName(x, s) ==
  IF s = <<>> THEN <<x>>
  ELSE IF StrLess(x, Head(s)) THEN <<x>> \o s
  ELSE <<Head(s)>> \o InsertName(x, Tail(s))

RECURSIVE SortNames(_)
SortNames(names) ==
  IF names = <<>> THEN <<>>
  ELSE InsertName(names[Len(names)], SortNames(SubSeq(names, 1, Len(names) - 1)))

\* ---------------------------------------------- discover_and_load_modules
\* The list comprehension over os.listdir: the entries that start with the
\* prefix and end with the suffix, in listing order.
IsModuleFile(f) ==
  StartsWith(f, MODULE_PATTERN_PREFIX) /\ EndsWith(f, MODULE_PATTERN_SUFFIX)

module_files(listing) == SelectSeq(listing, IsModuleFile)

\* file[:-3]
ModuleName(file) == SubSeq(file, 1, Len(file) - 3)

\* The default display name: module_name.replace('_', ' ').title()
DefaultDisplayName(module_name) == Title(Replace(module_name, "_", " "))

\* getattr(module_instance, 'TOOL_NAME', default)
DisplayName(def, module_name) ==
  GetAttr(def.TOOL_NAME, PyStr(DefaultDisplayName(module_name))).s

\* The dict stored under the display name.
Unit(def, file) ==
  [module |-> ModuleName(file),
   description |-> GetAttr(def.TOOL_DESCRIPTION, PyStr(<<>>)).s,
   order |-> GetAttr(def.TOOL_ORDER, PyInt(DEFAULT_TOOL_ORDER)),
   file |-> file,
   code_number |-> extract_code_number(file)]

\* LoadOne without the try: a failing import leaves the loop.
LoadOneNoTry(file, def, st) ==
  IF def.imp # NoExc THEN [st EXCEPT !.raised = def.imp]
  ELSE IF def.run = "absent"
  THEN [st EXCEPT !.errors = Append(@, MissingRunError(ModuleName(file)))]
  ELSE IF def.run # "callable"
  THEN [st EXCEPT !.errors = Append(@, NotCallableError(ModuleName(file)))]
  ELSE [st EXCEPT !.modules =
          DictSet(@, DisplayName(def, ModuleName(file)), Unit(def, file))]

\* LoadOne without the hasattr check: getattr(module, 'run') raises
\* AttributeError, which the except clause reports as a failed load.
LoadOneNoHasattr(file, def, st) ==
  IF def.imp # NoExc
  THEN IF CaughtByExceptException(def.imp)
       THEN [st EXCEPT !.errors = Append(@, FailedToLoadError(ModuleName(file), def.imp))]
       ELSE [st EXCEPT !.raised = def.imp]
  ELSE IF def.run = "absent"
  THEN [st EXCEPT !.errors =
          Append(@, FailedToLoadError(ModuleName(file),
                      Exc("AttributeError", "module has no attribute 'run'")))]
  ELSE IF def.run # "callable"
  THEN [st EXCEPT !.errors = Append(@, NotCallableError(ModuleName(file)))]
  ELSE [st EXCEPT !.modules =
          DictSet(@, DisplayName(def, ModuleName(file)), Unit(def, file))]

\* LoadOne without the callable check: a module whose run is not callable is
\* registered.
LoadOneNoCallable(file, def, st) ==
  IF def.imp # NoExc
  THEN IF CaughtByExceptException(def.imp)
       THEN [st EXCEPT !.errors = Append(@, FailedToLoadError(ModuleName(file), def.imp))]
       ELSE [st EXCEPT !.raised = def.imp]
  ELSE IF def.run = "absent"
  THEN [st EXCEPT !.errors = Append(@, MissingRunError(ModuleName(file)))]
  ELSE [st EXCEPT !.modules =
          DictSet(@, DisplayName(def, ModuleName(file)), Unit(def, file))]

\* LoadOne without the continue behind the callable check: the error is
\* appended and the module is registered all the same.
LoadOneNoContinue(file, def, st) ==
  IF def.imp # NoExc
  THEN IF CaughtByExceptException(def.imp)
       THEN [st EXCEPT !.errors = Append(@, FailedToLoadError(ModuleName(file), def.imp))]
       ELSE [st EXCEPT !.raised = def.imp]
  ELSE IF def.run = "absent"
  THEN [st EXCEPT !.errors = Append(@, MissingRunError(ModuleName(file)))]
  ELSE IF def.run # "callable"
  THEN [st EXCEPT !.errors = Append(@, NotCallableError(ModuleName(file))),
                  !.modules =
          DictSet(@, DisplayName(def, ModuleName(file)), Unit(def, file))]
  ELSE [st EXCEPT !.modules =
          DictSet(@, DisplayName(def, ModuleName(file)), Unit(def, file))]

\* One pass of the for loop's body, on the state st = (modules, errors,
\* raised): raised is the exception that leaves the loop, if any.
LoadOne(file, def, st) ==
  LET module_name == ModuleName(file) IN
  IF def.imp # NoExc
  THEN IF CaughtByExceptException(def.imp)
       THEN [st EXCEPT !.errors = Append(@, FailedToLoadError(module_name, def.imp))]
       ELSE [st EXCEPT !.raised = def.imp]
  ELSE IF def.run = "absent"
  THEN [st EXCEPT !.errors = Append(@, MissingRunError(module_name))]
  ELSE IF def.run # "callable"
  THEN [st EXCEPT !.errors = Append(@, NotCallableError(module_name))]
  ELSE [st EXCEPT !.modules =
          DictSet(@, DisplayName(def, module_name), Unit(def, file))]

\* for file in sorted(module_files): ...
RECURSIVE LoadLoop(_, _, _)
LoadLoop(files, fsys, st) ==
  IF files = <<>> \/ st.raised # NoExc THEN st
  ELSE LoadLoop(Tail(files), fsys, LoadOne(Head(files), fsys[Head(files)], st))

\* sorted_module_files with the files as os.listdir gave them.
sorted_module_filesAsListed(listing) == module_files(listing)

\* sorted(module_files): the list the for loop runs over.
sorted_module_files(listing) == SortNames(module_files(listing))

\* The body from the loop on, for the sorted list of module files: the
\* exception it raises, or the pair (sorted_modules, errors) it returns.
LoadModules(files, fsys) ==
  LET st == LoadLoop(files, fsys,
                     [modules |-> <<>>, errors |-> <<>>, raised |-> NoExc])
      sorted_modules == SortByKey(st.modules)
  IN IF st.raised # NoExc
     THEN [raised |-> st.raised, modules |-> <<>>, errors |-> <<>>]
     ELSE IF ~sorted_modules.ok
     THEN [raised |-> Exc("TypeError", "'<' not supported between instances"),
           modules |-> <<>>, errors |-> <<>>]
     ELSE [raised |-> NoExc, modules |-> sorted_modules.items, errors |-> st.errors]

\* The whole function, on a directory listing (scan is the exception raised
\* by os.listdir, NoExc when it returns): the exception it raises, or the
\* pair (sorted_modules, errors) it returns.
discover_and_load_modules(scan, listing, fsys) ==
  IF scan # NoExc THEN [raised |-> scan, modules |-> <<>>, errors |-> <<>>]
  ELSE LoadModules(sorted_module_files(listing), fsys)

\* ------------------------------------------------------------------ state
\* The sessions of the host: streamlit runs the script of each session in a
\* thread of its own, so the request cycles of two sessions overlap.
Sessions == 1..MaxSessions

VARIABLES
  fs,          \* the tool modules of the script directory: file name -> module
  cache,       \* st.cache_resource's entry for discover_and_load_modules
  load_count,  \* how many times the body of discover_and_load_modules was entered
  cycles,      \* how many request cycles (calls of main) have ended
  out,         \* per session: where its cycle is and what it read, showed and invoked
  failed,      \* the display names whose run has raised in some cycle
  filename,    \* the file name given to extract_code_number
  number,      \* what extract_code_number returned for it (-1: not called)
  listing      \* the listing given to a discovery pass run on its own

vars ==
  <<fs, cache, load_count, cycles, out, failed, filename, number, listing>>

\* The cache entry before the first completed call, and one holding a value.
NoCache == [set |-> FALSE, modules |-> <<>>, errors |-> <<>>]

\* Cached without the decorator: the value returned is not kept.
CachedNever(modules, errors) == [set |-> FALSE, modules |-> <<>>, errors |-> <<>>]
Cached(modules, errors) == [set |-> TRUE, modules |-> modules, errors |-> errors]

\* The orders in which os.listdir(script_dir) may return the entries of the
\* directory, the tool modules, the host script and the data file: any.
ListDir(fsys) == Listings(DOMAIN fsys \cup OtherFiles)

\* What os.listdir(script_dir) may do: return the entries, or raise.
ScanOutcomes == {NoExc, Exc("OSError", "Permission denied")}

\* What the selected module's run() may do: return, raise an error, or raise
\* an exception that does not derive from Exception.
RunOutcomes == {NoExc, Exc("ValueError", "boom"), Exc("SystemExit", "0")}

\* One output call of the page: the streamlit call, its text with {} for
\* the values put in, and those values.
Shown(call, fmt, name, text) == [call |-> call, fmt |-> fmt, name |-> name, text |-> text]

\* A session's cycle.  status is where the call of main stands: "none" (no
\* call yet), "waiting" (in the cache wrapper, for the pass of another
\* session to end), "scanning" (in the body of discover_and_load_modules,
\* os.listdir not yet back), "loading" (in the body, behind os.listdir),
\* "read" (discover_and_load_modules has returned the pair to main, which
\* has shown nothing of it yet), "failing" (exc has left the body and the
\* wrapper of discover_and_load_modules and is on its way out of main),
\* "running" (in the selected module's run()), "ok" (main returned),
\* "raised" (exc left main, from the function raised_in).  scan is what os.listdir raised in the cycle, files the
\* sorted module files, run_exc what the invoked run() raised.
NoOutput ==
  [status |-> "none", exc |-> NoExc, raised_in |-> "", run_exc |-> NoExc,
   scan |-> NoExc, files |-> <<>>, modules |-> <<>>, errors |-> <<>>,
   sidebar_errors |-> <<>>, guidance |-> FALSE, options |-> <<>>,
   app_mode |-> <<>>, invoked |-> <<>>, report |-> <<>>]

\* The session is inside a call of main.
InProgress(o) ==
  o.status \in {"waiting", "scanning", "loading", "read", "failing", "running"}

\* Some session is inside the body of discover_and_load_modules.
Loading == \E t \in Sessions : out[t].status \in {"scanning", "loading"}

\* Session s may call main: the calls begun stay within the bound, and the
\* sessions are numbered in the order of their first call.
CanBegin(s) ==
  /\ ~InProgress(out[s])
  /\ cycles + Cardinality({t \in Sessions : InProgress(out[t])}) < MaxCycles
  /\ IF s = 1 THEN TRUE ELSE out[s - 1].status # "none"

\* -------------------------------------------------- display_module_errors
\* The errors listed in the sidebar expander; nothing is shown for none.
display_module_errors(errors) == errors

\* ---------------------------------------------------- run_selected_module
\* run_selected_module without the try: what run() raises leaves it.
run_selected_moduleNoTry(module_data, module_name, outcome) ==
  [raised |-> outcome, calls |-> <<module_data.module>>, report |-> <<>>]

\* run_selected_module that calls run() a second time after a failure it
\* caught.
run_selected_moduleRetry(module_data, module_name, outcome) ==
  IF outcome = NoExc
  THEN [raised |-> NoExc, calls |-> <<module_data.module>>, report |-> <<>>]
  ELSE IF ~CaughtByExceptException(outcome)
  THEN [raised |-> outcome, calls |-> <<module_data.module>>, report |-> <<>>]
  ELSE [raised |-> NoExc, calls |-> <<module_data.module, module_data.module>>,
        report |-> <<>>]

\* The call of module_data['module'].run() with the given outcome: the
\* modules whose run was called, what is shown, and the exception that
\* leaves the function (NoExc when none does).
run_selected_module(module_data, module_name, outcome) ==
  IF outcome = NoExc
  THEN [raised |-> NoExc, calls |-> <<module_data.module>>, report |-> <<>>]
  ELSE IF ~CaughtByExceptException(outcome)
  THEN [raised |-> outcome, calls |-> <<module_data.module>>, report |-> <<>>]
  ELSE [raised |-> NoExc,
        calls |-> <<module_data.module>>,
        report |->
          << Shown("st.error", "### Error running '{}'", module_name, ""),
             Shown("st.error", "**Error type:** {}", <<>>, outcome.type),
             Shown("st.error", "**Message:** {}", <<>>, outcome.msg),
             Shown("st.expander", "Full Error Traceback", <<>>, ""),
             Shown("st.code", "Traceback (most recent call last): {}", <<>>,
                   outcome.type),
             Shown("st.info", "Tip: Check the module's code or contact the module developer.",
                   <<>>, "") >>]

\* ------------------------------------------------------------------- main
\* The call discover_and_load_modules() of main returns the pair (modules,
\* errors) in session s.
Returns(s, modules, errors) ==
  out' = [out EXCEPT ![s] =
            [NoOutput EXCEPT !.status = "read", !.modules = modules,
                             !.errors = errors]]

\* Session s enters the body of discover_and_load_modules and calls
\* os.listdir.
EnterBody(s) ==
  /\ out' = [out EXCEPT ![s] = [NoOutput EXCEPT !.status = "scanning"]]
  /\ load_count' = load_count + 1
  /\ UNCHANGED <<fs, cache, cycles, failed, filename, number, listing>>

\* Session s calls main and finds the registry in the cache: the decorated
\* function's body does not run, the stored pair is handed out.
MainCached(s) ==
  /\ CanBegin(s)
  /\ cache.set
  /\ Returns(s, cache.modules, cache.errors)
  /\ UNCHANGED <<fs, cache, load_count, cycles, failed, filename, number, listing>>

\* Session s calls main, finds no cache entry, and another session is in the
\* body: the wrapper makes s wait for that pass to end.
MainWait(s) ==
  /\ CanBegin(s)
  /\ ~cache.set
  /\ Loading
  /\ out' = [out EXCEPT ![s] = [NoOutput EXCEPT !.status = "waiting"]]
  /\ UNCHANGED <<fs, cache, load_count, cycles, failed, filename, number, listing>>

\* Session s calls main and finds no cache entry and no session in the
\* body: the body runs in s.
MainDiscover(s) ==
  /\ CanBegin(s)
  /\ ~cache.set
  /\ ~Loading
  /\ EnterBody(s)

\* The pass session s waited for has ended with a registry stored: s gets it.
MainWakeHit(s) ==
  /\ out[s].status = "waiting"
  /\ ~Loading
  /\ cache.set
  /\ Returns(s, cache.modules, cache.errors)
  /\ UNCHANGED <<fs, cache, load_count, cycles, failed, filename, number, listing>>

\* The pass session s waited for has raised and stored nothing: the body
\* runs in s.
MainWakeMiss(s) ==
  /\ out[s].status = "waiting"
  /\ ~Loading
  /\ ~cache.set
  /\ EnterBody(s)

\* ScanDirectory with os.listdir's failure swallowed: an empty registry and
\* no load error are returned and stored.
ScanDirectorySwallow(s) ==
  /\ out[s].status = "scanning"
  /\ \E scan \in ScanOutcomes :
       IF scan # NoExc
       THEN /\ cache' = Cached(<<>>, <<>>)
            /\ out' = [out EXCEPT ![s] =
                         [NoOutput EXCEPT !.status = "read", !.scan = scan]]
       ELSE /\ \E files \in {sorted_module_files(entries) : entries \in ListDir(fs)} :
                 out' = [out EXCEPT ![s] =
                           [NoOutput EXCEPT !.status = "loading", !.files = files]]
            /\ cache' = cache
  /\ cycles' = cycles
  /\ UNCHANGED <<fs, load_count, failed, filename, number, listing>>

\* os.listdir ends in session s: it raises, which leaves the body and the
\* wrapper and stores nothing, or it returns the entries in some order and
\* the body goes on with the sorted module files.
ScanDirectory(s) ==
  /\ out[s].status = "scanning"
  /\ \E scan \in ScanOutcomes :
       IF scan # NoExc
       THEN out' = [out EXCEPT ![s] =
                      [NoOutput EXCEPT !.status = "failing", !.exc = scan,
                                       !.raised_in = "discover_and_load_modules",
                                       !.scan = scan]]
       ELSE \E files \in {sorted_module_files(entries) : entries \in ListDir(fs)} :
              out' = [out EXCEPT ![s] =
                        [NoOutput EXCEPT !.status = "loading", !.files = files]]
  /\ cycles' = cycles
  /\ cache' = cache
  /\ UNCHANGED <<fs, load_count, failed, filename, number, listing>>

\* The loop and the sort of the body end in session s: what they raise
\* leaves the body and the wrapper and nothing is stored; what they return
\* is stored and handed to main.
MainLoaded(s) ==
  /\ out[s].status = "loading"
  /\ LET d == LoadModules(out[s].files, fs)
     IN IF d.raised # NoExc
        THEN /\ out' = [out EXCEPT ![s] =
                          [NoOutput EXCEPT !.status = "failing", !.exc = d.raised,
                                           !.raised_in = "discover_and_load_modules"]]
             /\ cache' = cache
        ELSE /\ cache' = Cached(d.modules, d.errors)
             /\ Returns(s, d.modules, d.errors)
  /\ cycles' = cycles
  /\ UNCHANGED <<fs, load_count, failed, filename, number, listing>>

\* The exception that left discover_and_load_modules in session s leaves
\* main, which has no handler: the call of main ends with it.
MainRaises(s) ==
  /\ out[s].status = "failing"
  /\ out' = [out EXCEPT ![s] = [@ EXCEPT !.status = "raised"]]
  /\ cycles' = cycles + 1
  /\ UNCHANGED <<fs, cache, load_count, failed, filename, number, listing>>

\* MainBody without the else branch: nothing is shown for an empty registry.
MainBodyNoGuidance(s) ==
  /\ out[s].status = "read"
  /\ IF out[s].modules # <<>>
     THEN \E i \in 1..Len(out[s].modules) :
            /\ out' = [out EXCEPT ![s] =
                         [@ EXCEPT !.status = "running",
                                   !.sidebar_errors = display_module_errors(out[s].errors),
                                   !.options = DictKeys(out[s].modules),
                                   !.app_mode = <<out[s].modules[i].key>>]]
            /\ cycles' = cycles
     ELSE /\ out' = [out EXCEPT ![s] =
                       [@ EXCEPT !.status = "ok",
                                 !.sidebar_errors = display_module_errors(out[s].errors)]]
          /\ cycles' = cycles + 1
  /\ UNCHANGED <<fs, cache, load_count, failed, filename, number, listing>>

\* main from the return of discover_and_load_modules on, in session s: the
\* error list, then either the tool list, the radio's value app_mode and the
\* entry into the selected module's run(), or the guidance and the return of
\* main.
MainBody(s) ==
  /\ out[s].status = "read"
  /\ IF out[s].modules # <<>>
     THEN \E i \in 1..Len(out[s].modules) :
            /\ out' = [out EXCEPT ![s] =
                         [@ EXCEPT !.status = "running",
                                   !.sidebar_errors = display_module_errors(out[s].errors),
                                   !.options = DictKeys(out[s].modules),
                                   !.app_mode = <<out[s].modules[i].key>>]]
            /\ cycles' = cycles
     ELSE /\ out' = [out EXCEPT ![s] =
                       [@ EXCEPT !.status = "ok",
                                 !.sidebar_errors = display_module_errors(out[s].errors),
                                 !.guidance = TRUE]]
          /\ cycles' = cycles + 1
  /\ UNCHANGED <<fs, cache, load_count, failed, filename, number, listing>>

\* MainRunEnds with a dispatcher that deletes from the registry the unit
\* whose run has raised (del modules[app_mode] on the cached dict).
MainRunEndsDropsFailed(s) ==
  /\ out[s].status = "running"
  /\ \E outcome \in RunOutcomes :
       LET app_mode == out[s].app_mode[1]
           r == run_selected_module(DictGet(out[s].modules, app_mode), app_mode,
                                    outcome)
       IN /\ out' = [out EXCEPT ![s] =
                       [@ EXCEPT !.status = IF r.raised = NoExc THEN "ok" ELSE "raised",
                                 !.exc = r.raised,
                                 !.raised_in = IF r.raised = NoExc THEN ""
                                               ELSE "run_selected_module",
                                 !.run_exc = outcome,
                                 !.invoked = r.calls,
                                 !.report = r.report]]
          /\ failed' = IF outcome = NoExc THEN failed ELSE failed \cup {app_mode}
          /\ cache' = IF outcome = NoExc THEN cache
                      ELSE [cache EXCEPT !.modules =
                              SelectSeq(@, LAMBDA it : it.key # app_mode)]
  /\ cycles' = cycles + 1
  /\ UNCHANGED <<fs, load_count, filename, number, listing>>

\* The run() of the module selected in session s ends, with the given
\* outcome: run_selected_module returns, after its report when it caught a
\* failure, and main returns, or the exception leaves both.
MainRunEnds(s) ==
  /\ out[s].status = "running"
  /\ \E outcome \in RunOutcomes :
       LET app_mode == out[s].app_mode[1]
           r == run_selected_module(DictGet(out[s].modules, app_mode), app_mode,
                                    outcome)
       IN /\ out' = [out EXCEPT ![s] =
                       [@ EXCEPT !.status = IF r.raised = NoExc THEN "ok" ELSE "raised",
                                 !.exc = r.raised,
                                 !.raised_in = IF r.raised = NoExc THEN ""
                                               ELSE "run_selected_module",
                                 !.run_exc = outcome,
                                 !.invoked = r.calls,
                                 !.report = r.report]]
          /\ failed' = IF outcome = NoExc THEN failed ELSE failed \cup {app_mode}
  /\ cycles' = cycles + 1
  /\ UNCHANGED <<fs, cache, load_count, filename, number, listing>>

\* The steps of a call of main in session s.
main(s) ==
  \/ MainCached(s)
  \/ MainWait(s)
  \/ MainDiscover(s)
  \/ MainWakeHit(s)
  \/ MainWakeMiss(s)
  \/ ScanDirectory(s)
  \/ MainLoaded(s)
  \/ MainRaises(s)
  \/ MainBody(s)
  \/ MainRunEnds(s)

\* The script directories: at most MaxFiles tool modules, each any of the
\* module definitions.
Directories ==
  UNION {[S -> ModuleDefs] : S \in {T \in SUBSET ToolFiles : Cardinality(T) <= MaxFiles}}

\* The script directories served to several sessions at a time.
SharedDirectories ==
  UNION {[S -> ModuleDefs] :
           S \in {T \in SUBSET ToolFiles : Cardinality(T) <= MaxSharedFiles}}

Init ==
  /\ fs \in SharedDirectories
  /\ cache = NoCache
  /\ load_count = 0
  /\ cycles = 0
  /\ out = [s \in Sessions |-> NoOutput]
  /\ failed = {}
  /\ filename = <<>>
  /\ number = -1
  /\ listing = <<>>

Next == \E s \in Sessions : main(s)

Spec == Init /\ [][Next]_vars

\* ------------------------------------------------- a host with one session
\* One session calls main again and again, over any of the directories: its
\* cycles follow one another, and no call waits for a pass of another.
InitSession ==
  /\ fs \in Directories
  /\ cache = NoCache
  /\ load_count = 0
  /\ cycles = 0
  /\ out = [s \in Sessions |-> NoOutput]
  /\ failed = {}
  /\ filename = <<>>
  /\ number = -1
  /\ listing = <<>>

NextSession ==
  \/ MainCached(1)
  \/ MainDiscover(1)
  \/ ScanDirectory(1)
  \/ MainLoaded(1)
  \/ MainRaises(1)
  \/ MainBody(1)
  \/ MainRunEnds(1)

SpecSession == InitSession /\ [][NextSession]_vars

\* ------------------------------- extract_code_number as a function of names
\* The characters of the part of a file name between "code" and ".py".
TailChars == {"0", "1", "5", "_", "a"}

\* All strings over TailChars of length at most n.
RECURSIVE Tails(_)
Tails(n) ==
  IF n = 0 THEN {<<>>}
  ELSE Tails(n - 1) \cup {Append(t, c) : t \in Tails(n - 1), c \in TailChars}

\* A name with "code" after the start, for the search of the pattern.
F_code_code7 ==
  <<"c", "o", "d", "e", "_", "c", "o", "d", "e", "7", ".", "p", "y">>

\* The candidate file names: code<tail>.py, and the names of ToolFiles.
ExtractNames ==
  {MODULE_PATTERN_PREFIX \o t \o MODULE_PATTERN_SUFFIX : t \in Tails(MaxTail)}
    \cup ToolFiles \cup {F_code_code7}

InitExtract ==
  /\ filename \in ExtractNames
  /\ number = -1
  /\ fs = <<>>
  /\ cache = NoCache
  /\ load_count = 0
  /\ cycles = 0
  /\ out = [s \in Sessions |-> NoOutput]
  /\ failed = {}
  /\ listing = <<>>

\* The call extract_code_number(filename).
Extract ==
  /\ number = -1
  /\ number' = extract_code_number(filename)
  /\ UNCHANGED <<fs, cache, load_count, cycles, out, failed, filename, listing>>

NextExtract == Extract

SpecExtract == InitExtract /\ [][NextExtract]_vars

\* ------------------- discover_and_load_modules as a function of the listing
\* The modules of the directories listed in every order: the ones whose
\* place in the loop shows in the result (a failed import, an import that
\* exits, a missing run, two units of one display name, an order of another
\* type).
ListingDefs == {ImportFails, ImportExits, NoRun, ToolZ1, ToolZ, ToolStrOrder}

DirectoriesListing ==
  UNION {[S -> ListingDefs] :
           S \in {T \in SUBSET ToolFiles : Cardinality(T) <= MaxFiles}}

InitListing ==
  /\ fs \in DirectoriesListing
  /\ listing \in ListDir(fs)
  /\ cache = NoCache
  /\ load_count = 0
  /\ cycles = 0
  /\ out = [s \in Sessions |-> NoOutput]
  /\ failed = {}
  /\ filename = <<>>
  /\ number = -1

\* One call of discover_and_load_modules on the listing: what it returns is
\* kept in cache, what it raises in out.
DiscoverListing ==
  /\ load_count = 0
  /\ LET d == discover_and_load_modules(NoExc, listing, fs)
     IN IF d.raised # NoExc
        THEN /\ out' = [out EXCEPT ![1] =
                          [NoOutput EXCEPT !.status = "raised", !.exc = d.raised,
                                           !.raised_in = "discover_and_load_modules"]]
             /\ cache' = cache
        ELSE /\ out' = [out EXCEPT ![1] =
                          [NoOutput EXCEPT !.status = "ok", !.modules = d.modules,
                                           !.errors = d.errors]]
             /\ cache' = Cached(d.modules, d.errors)
  /\ load_count' = 1
  /\ UNCHANGED <<fs, cycles, failed, filename, number, listing>>

NextListing == DiscoverListing

SpecListing == InitListing /\ [][NextListing]_vars

\* ------------------------------- directories of numbered and unnumbered names
\* File names without a number and with numbers up to and past the value
\* extract_code_number returns for a name without one.
F_code_x == <<"c", "o", "d", "e", "_", "x", ".", "p", "y">>
F_code999999 ==
  <<"c", "o", "d", "e", "9", "9", "9", "9", "9", "9", ".", "p", "y">>
F_code1000000 ==
  <<"c", "o", "d", "e", "1", "0", "0", "0", "0", "0", "0", ".", "p", "y">>
OrderFiles == {F_code2, F_code_x, F_code999999, F_code1000000}

OrderDefs == {Plain, ToolZ1, NoRun}

DirectoriesOrder ==
  UNION {[S -> OrderDefs] :
           S \in {T \in SUBSET OrderFiles : Cardinality(T) <= MaxFiles}}

InitOrder ==
  /\ fs \in DirectoriesOrder
  /\ cache = NoCache
  /\ load_count = 0
  /\ cycles = 0
  /\ out = [s \in Sessions |-> NoOutput]
  /\ failed = {}
  /\ filename = <<>>
  /\ number = -1
  /\ listing = <<>>

SpecOrder == InitOrder /\ [][NextSession]_vars

\* ================================================================= claims
\* The candidates and what becomes of them.
Candidates == DOMAIN fs
Resolves(f) == fs[f].imp = NoExc
Valid(f) == Resolves(f) /\ fs[f].run = "callable"
NameOf(f) == DisplayName(fs[f], ModuleName(f))

\* The positions of the load errors that name candidate f, and of the
\* registry entries made from f.
ErrorsFor(errors, f) == {i \in 1..Len(errors) : errors[i].name = ModuleName(f)}
EntriesOf(modules, f) == {i \in 1..Len(modules) : modules[i].value.file = f}
EntriesNamed(modules, name) == {i \in 1..Len(modules) : modules[i].key = name}

\* The valid candidates with the display name of f, and the one of them that
\* is last in sorted file-name order.
SameName(f) == {g \in Candidates : Valid(g) /\ NameOf(g) = NameOf(f)}
Latest(f) == CHOOSE w \in SameName(f) : \A v \in SameName(f) : v = w \/ StrLess(v, w)

\* The cycle's main got a registry from discover_and_load_modules and used it.
UsedRegistry(o) == o.guidance \/ o.app_mode # <<>>

\* The cycle's main holds a registry: discover_and_load_modules has returned.
GotRegistry(o) == o.status = "read" \/ UsedRegistry(o)

\* The cycle's call of main has ended.
Ended(o) == o.status \in {"ok", "raised"}

\* ---- C1
\* C1 as claimed: over any number of request cycles the body of
\* discover_and_load_modules runs at most once.
C1_AtMostOnePass == load_count <= 1

\* C1 as amended: a pass that returns a registry is stored, and from then on
\* no cycle of any session runs discovery again: every later read gives main
\* the stored registry (same units, same order, same load errors) and the
\* stored entry never changes.  (A pass that raises stores nothing: the next
\* cycle, or the session that waited for the pass, runs discovery again.)
C1_RegistryComputedOnce ==
  [][ /\ cache.set =>
           /\ cache' = cache
           /\ load_count' = load_count
           /\ \A s \in Sessions :
                (out'[s] # out[s] /\ GotRegistry(out'[s])) =>
                  /\ out'[s].modules = cache.modules
                  /\ out'[s].errors = cache.errors
      /\ \A s \in Sessions :
           GotRegistry(out'[s]) =>
             /\ cache'.set
             /\ out'[s].modules = cache'.modules
             /\ out'[s].errors = cache'.errors ]_vars

\* C1 witness: three cycles have ended in two sessions; the body ran once
\* and returned a non-empty registry with a load error, and the last cycle
\* of each session read that registry.
C1_Witness ==
  /\ cache.set
  /\ load_count = 1
  /\ cycles = 3
  /\ cache.modules # <<>>
  /\ cache.errors # <<>>
  /\ \A s \in Sessions : Ended(out[s]) /\ out[s].modules = cache.modules

\* ---- C2
\* C2 as claimed (its first part): a failure of resolving a candidate is
\* caught, so no import's exception ever leaves discovery.
C2_ImportFailureCaught ==
  \A s \in Sessions :
    out[s].raised_in = "discover_and_load_modules"
      => ~\E f \in Candidates : ~Resolves(f) /\ fs[f].imp = out[s].exc

\* C2 as amended: an import failure that derives from Exception never leaves
\* discovery; and in every registry discovery returns, each candidate whose
\* import failed has exactly one load error, the failed-load message with
\* its module name and str(e), and every candidate that resolves and
\* validates is registered under its display name unless a later candidate
\* of the same display name replaced it, wherever the failing one stands.
C2_ImportFailureIsolated ==
  /\ \A s \in Sessions :
       out[s].raised_in = "discover_and_load_modules"
         => ~\E f \in Candidates :
               /\ ~Resolves(f)
               /\ fs[f].imp = out[s].exc
               /\ CaughtByExceptException(fs[f].imp)
  /\ cache.set =>
       /\ \A f \in Candidates :
            ~Resolves(f) =>
              /\ Cardinality(ErrorsFor(cache.errors, f)) = 1
              /\ \A i \in ErrorsFor(cache.errors, f) :
                   /\ cache.errors[i].fmt = "Failed to load '{}': {}"
                   /\ cache.errors[i].detail = fs[f].imp.msg
              /\ EntriesOf(cache.modules, f) = {}
       /\ \A g \in Candidates :
            Valid(g) =>
              /\ Cardinality(EntriesOf(cache.modules, Latest(g))) = 1
              /\ \A i \in EntriesOf(cache.modules, Latest(g)) :
                   cache.modules[i].key = NameOf(g)

\* C2 witness: a registry holding a unit that sorts before and a unit that
\* sorts after a candidate whose import raised ImportError.
C2_Witness ==
  /\ cache.set
  /\ \E f, g, h \in Candidates :
       /\ ~Resolves(f) /\ Valid(g) /\ Valid(h)
       /\ StrLess(g, f) /\ StrLess(f, h)
       /\ EntriesOf(cache.modules, g) # {}
       /\ EntriesOf(cache.modules, h) # {}
       /\ ErrorsFor(cache.errors, f) # {}

\* ---- C3
\* C3 as claimed (its first part): whatever the selected unit's run raises is
\* caught inside run_selected_module and never leaves it.
C3_RunFailureNeverPropagates ==
  \A s \in Sessions : out[s].raised_in # "run_selected_module"

\* Session s may call main now and get the stored registry.
CanRead(s) ==
  ENABLED (main(s) /\ out'[s].status = "read" /\ out'[s].modules = cache.modules)

\* Session s, holding the registry, may select the registered name n and
\* enter n's run.
CanDispatch(s, n) ==
  ENABLED (main(s) /\ out'[s].status = "running" /\ out'[s].app_mode = <<n>>)

\* C3 as amended: a failure of run that derives from Exception never leaves
\* run_selected_module: main returns and the report shows the failure's
\* class name, its message and the trace; only an exception that does not
\* derive from Exception leaves it.  Every cycle that ended behind a
\* selection invoked the module registered under the selected name; and
\* after any cycle, failed or not, in whatever session, a session that
\* calls main gets the stored registry, and every registered unit, the ones
\* whose run has raised included, is offered and entered when selected.
C3_RunFailureContained ==
  /\ \A s \in Sessions :
       LET o == out[s] IN
       /\ o.raised_in = "run_selected_module"
            => o.exc = o.run_exc /\ ~CaughtByExceptException(o.exc)
       /\ (o.run_exc # NoExc /\ CaughtByExceptException(o.run_exc)) =>
            /\ o.status = "ok"
            /\ \E i \in 1..Len(o.report) :
                 o.report[i].call = "st.error" /\ o.report[i].text = o.run_exc.type
            /\ \E i \in 1..Len(o.report) :
                 o.report[i].call = "st.error" /\ o.report[i].text = o.run_exc.msg
            /\ \E i \in 1..Len(o.report) : o.report[i].call = "st.code"
       /\ o.app_mode # <<>> =>
            /\ o.options = DictKeys(o.modules)
            /\ Ended(o) => o.invoked = <<DictGet(o.modules, o.app_mode[1]).module>>
  /\ cache.set => \A s \in Sessions : CanBegin(s) => CanRead(s)
  /\ \A s \in Sessions :
       out[s].status = "read" =>
         \A i \in 1..Len(cache.modules) : CanDispatch(s, cache.modules[i].key)

\* C3 witness: three cycles have ended; in one session a healthy unit ran
\* and returned, in the other a unit whose run has raised was invoked and
\* raised ValueError, which was reported, and main returned.
C3_Witness ==
  /\ cycles = 3
  /\ \E s, t \in Sessions :
       /\ s # t
       /\ out[s].status = "ok"
       /\ out[s].app_mode # <<>>
       /\ out[s].app_mode[1] \in failed
       /\ out[s].run_exc = Exc("ValueError", "boom")
       /\ out[s].report # <<>>
       /\ Len(out[s].modules) >= 2
       /\ out[t].status = "ok"
       /\ out[t].invoked # <<>>
       /\ out[t].run_exc = NoExc
       /\ out[t].app_mode # out[s].app_mode

\* ---- C4
\* C4 as claimed, for the failures that derive from Exception: only a scan
\* failure leaves the core; no failure raised while resolving, validating,
\* extracting, ordering or running a unit makes a request cycle fail.
C4_OnlyScanFailureEscapes ==
  \A s \in Sessions :
    (out[s].status = "raised" /\ CaughtByExceptException(out[s].exc))
      => ( /\ out[s].raised_in = "discover_and_load_modules"
           /\ out[s].exc \in ScanOutcomes
           /\ out[s].scan = out[s].exc )

\* ---- C5
\* C5: in every registry discovery returns, a candidate that resolves but
\* has no attribute run has no unit, and exactly one load error names it,
\* with the missing-run wording.
C5_MissingRunExcluded ==
  cache.set =>
    \A f \in Candidates :
      (Resolves(f) /\ fs[f].run = "absent") =>
        /\ EntriesOf(cache.modules, f) = {}
        /\ \A i \in 1..Len(cache.modules) :
             cache.modules[i].value.module # ModuleName(f)
        /\ Cardinality(ErrorsFor(cache.errors, f)) = 1
        /\ \A i \in ErrorsFor(cache.errors, f) :
             /\ cache.errors[i].fmt = "Module '{}' missing required 'run()' function"
             /\ cache.errors[i].detail = ""

\* C5 witness: a registry with a unit, made from a directory that also holds
\* a module without run, whose load error is listed.
C5_Witness ==
  /\ cache.set
  /\ cache.modules # <<>>
  /\ \E f \in Candidates :
       /\ Resolves(f) /\ fs[f].run = "absent"
       /\ ErrorsFor(cache.errors, f) # {}
       /\ ErrorsFor(out[1].sidebar_errors, f) # {}

\* ---- C6
\* C6: in every registry discovery returns, a candidate whose run exists but
\* is not callable has no unit, and one load error names it, worded unlike
\* the missing-run error and unlike the failed-load error.
C6_NotCallableExcluded ==
  cache.set =>
    \A f \in Candidates :
      (Resolves(f) /\ fs[f].run = "notcallable") =>
        /\ EntriesOf(cache.modules, f) = {}
        /\ Cardinality(ErrorsFor(cache.errors, f)) = 1
        /\ \A i \in ErrorsFor(cache.errors, f) :
             /\ cache.errors[i].fmt = "Module '{}' has 'run' but it's not callable"
             /\ cache.errors[i].fmt # MissingRunError(ModuleName(f)).fmt
             /\ cache.errors[i].fmt # FailedToLoadError(ModuleName(f), NoExc).fmt

\* C6 witness: a directory with a module whose run is not callable, one
\* without run and one whose import fails: three load errors, three wordings.
C6_Witness ==
  /\ cache.set
  /\ \E f, g, h \in Candidates :
       /\ Resolves(f) /\ fs[f].run = "notcallable"
       /\ Resolves(g) /\ fs[g].run = "absent"
       /\ ~Resolves(h)
  /\ Len(cache.errors) = 3
  /\ Cardinality({cache.errors[i].fmt : i \in 1..3}) = 3

\* ---- C7
\* C7: when two or more valid candidates have the same display name, every
\* registry discovery returns has exactly one entry of that name; it is the
\* unit (module, description, order, file, code number) of the candidate
\* that is last in sorted file-name order, and no load error names any of
\* the candidates.
C7_LastWriteWins ==
  cache.set =>
    \A f \in Candidates :
      (Valid(f) /\ Cardinality(SameName(f)) >= 2) =>
        /\ Cardinality(EntriesNamed(cache.modules, NameOf(f))) = 1
        /\ \A i \in EntriesNamed(cache.modules, NameOf(f)) :
             LET w == Latest(f) IN
             /\ cache.modules[i].value.file = w
             /\ cache.modules[i].value.module = ModuleName(w)
             /\ cache.modules[i].value.description
                  = GetAttr(fs[w].TOOL_DESCRIPTION, PyStr(<<>>)).s
             /\ cache.modules[i].value.order
                  = GetAttr(fs[w].TOOL_ORDER, PyInt(DEFAULT_TOOL_ORDER))
             /\ cache.modules[i].value.code_number = extract_code_number(w)
        /\ \A g \in SameName(f) : ErrorsFor(cache.errors, g) = {}

\* C7 witness: two valid candidates named Z with different descriptions and
\* orders, a third unit between them in file-name order; the entry Z is the
\* later candidate's.
C7_Witness ==
  /\ cache.set
  /\ Len(cache.modules) = 2
  /\ \E f, g, h \in Candidates :
       /\ Valid(f) /\ Valid(g) /\ Valid(h)
       /\ StrLess(f, g) /\ StrLess(g, h)
       /\ NameOf(f) = NameOf(h) /\ NameOf(g) # NameOf(f)
       /\ fs[f].TOOL_ORDER # fs[h].TOOL_ORDER
       /\ DictGet(cache.modules, NameOf(f)).file = h

\* ---- C8
\* The key order the claim describes, written out for two registry items:
\* first the code number, then the declared order, then the display name.
C8_Before(a, b) ==
  \/ a.value.code_number < b.value.code_number
  \/ /\ a.value.code_number = b.value.code_number
     /\ a.value.order.t = b.value.order.t
     /\ \/ (a.value.order.t = "int" /\ a.value.order.i < b.value.order.i)
        \/ (a.value.order.t = "str" /\ StrLess(a.value.order.s, b.value.order.s))
        \/ (a.value.order = b.value.order /\ StrLess(a.key, b.key))

\* C8: every registry discovery returns is strictly ascending by (code number,
\* declared order, display name), with no two items tied; so a unit of
\* code2.py with no declared order stands before a unit of code10.py that
\* declares order 1.
C8_RegistryOrder ==
  cache.set =>
    /\ \A i, j \in 1..Len(cache.modules) :
         i < j => C8_Before(cache.modules[i], cache.modules[j])
    /\ \A i, j \in 1..Len(cache.modules) :
         ( /\ cache.modules[i].value.file = F_code2
           /\ cache.modules[i].value.order = PyInt(DEFAULT_TOOL_ORDER)
           /\ cache.modules[j].value.file = F_code10
           /\ cache.modules[j].value.order = PyInt(1) ) => i < j

\* C8 witness: code2.py without TOOL_ORDER stands before code10.py with
\* TOOL_ORDER 1, and code10_b.py, of the same code number 10 and the default
\* order, stands behind code10.py although its name sorts before.
C8_Witness ==
  /\ cache.set
  /\ Len(cache.modules) = 3
  /\ cache.modules[1].value.file = F_code2
  /\ cache.modules[1].value.order = PyInt(DEFAULT_TOOL_ORDER)
  /\ cache.modules[2].value.file = F_code10
  /\ cache.modules[2].value.order = PyInt(1)
  /\ cache.modules[3].value.file = F_code10_b
  /\ StrLess(cache.modules[3].key, cache.modules[2].key)

\* ---- C9
\* C9: the registry is empty exactly when the directory has no candidate
\* that loads and validates; while the stored registry is empty no session
\* is inside a run and none has invoked one; the step main takes after it
\* got an empty registry ends the cycle with the guidance shown, nothing
\* selected and no run invoked; and the guidance is shown for an empty
\* registry only.
C9_EmptyRegistryGuidance ==
  /\ [](cache.set => (cache.modules = <<>> <=> ~\E f \in Candidates : Valid(f)))
  /\ []((cache.set /\ cache.modules = <<>>) =>
          \A s \in Sessions :
            /\ out[s].status # "running"
            /\ out[s].invoked = <<>>
            /\ (GotRegistry(out[s]) /\ Ended(out[s])) => out[s].guidance)
  /\ [](\A s \in Sessions :
          out[s].guidance =>
            /\ cache.set /\ cache.modules = <<>>
            /\ out[s].status = "ok"
            /\ out[s].invoked = <<>>)
  /\ [][ \A s \in Sessions :
           (out[s].status = "read" /\ out[s].modules = <<>> /\ out'[s] # out[s]) =>
             /\ out'[s].status = "ok"
             /\ out'[s].guidance
             /\ out'[s].invoked = <<>>
             /\ out'[s].app_mode = <<>> ]_vars

\* C9 witness: three cycles of two sessions over a directory whose two
\* candidates both failed to load or validate: guidance in both sessions,
\* nothing invoked, the errors listed.
C9_Witness ==
  /\ cycles = 3
  /\ cache.set
  /\ cache.modules = <<>>
  /\ Cardinality(Candidates) = 2
  /\ \A s \in Sessions :
       /\ Len(out[s].sidebar_errors) = 2
       /\ out[s].guidance
       /\ out[s].invoked = <<>>

\* ---- C10
\* The number the claim describes: the first run of digits found in the name
\* behind the prefix "code", and 999999 when there is none.
C10_DigitPositions(name) == {i \in 5..Len(name) : IsDigit(name[i])}
C10_ClaimedNumber(name) ==
  IF C10_DigitPositions(name) = {} THEN 999999
  ELSE LET p == CHOOSE m \in C10_DigitPositions(name) :
                  \A n \in C10_DigitPositions(name) : m <= n
       IN ParseInt(SubSeq(name, p, DigitsEnd(name, p)))

\* C10 as claimed: for every candidate file name extract_code_number returns
\* the first run of digits behind the prefix (code10.py gives 10,
\* code_app_5.py gives 5) and 999999 when the name has no digits.
C10_FirstDigitRun ==
  number # -1 => number = C10_ClaimedNumber(filename)

\* ---- C11
\* The display name the claim describes for candidate f: the declared
\* TOOL_NAME when there is one and it is not empty, and otherwise the file
\* name without its extension, underscores turned into spaces, every word
\* capitalized.
C11_ClaimedName(f) ==
  IF fs[f].TOOL_NAME.t = "str" /\ fs[f].TOOL_NAME.s # <<>>
  THEN fs[f].TOOL_NAME.s
  ELSE Title(Replace(SubSeq(f, 1, Len(f) - 3), "_", " "))

\* C11 as claimed: every unit of a registry discovery returns is registered
\* under its declared TOOL_NAME if that is present and not empty, and under
\* the name made from its file name if TOOL_NAME is absent or empty.
C11_DisplayNameRule ==
  cache.set =>
    \A i \in 1..Len(cache.modules) :
      cache.modules[i].key = C11_ClaimedName(cache.modules[i].value.file)

\* ---- C13
\* C13: in every request cycle that has ended behind the read of a non-empty
\* registry, the radio's value is one of the registered display names, run
\* was called exactly once in the cycle, on the module registered under that
\* name, and the run of no other registered unit was called, whether the
\* call returned, raised an error or raised SystemExit; a cycle still inside
\* run has left no call behind it, and a cycle without a registry or with
\* an empty one calls no run.
C13_ExactlyOneRun ==
  \A s \in Sessions :
    LET o == out[s] IN
    /\ (Ended(o) /\ o.modules # <<>>) =>
         /\ Len(o.app_mode) = 1
         /\ Len(o.invoked) = 1
         /\ \E i \in 1..Len(o.modules) :
              /\ o.modules[i].key = o.app_mode[1]
              /\ o.modules[i].value.module = o.invoked[1]
         /\ \A i \in 1..Len(o.modules) :
              o.modules[i].key # o.app_mode[1] =>
                \A k \in 1..Len(o.invoked) :
                  o.invoked[k] # o.modules[i].value.module
    /\ o.status = "running" => (Len(o.app_mode) = 1 /\ o.invoked = <<>>)
    /\ o.modules = <<>> => o.invoked = <<>>

\* C13 witness: over a registry of two units, one session selected the
\* second unit and its run raised ValueError: that module and no other was
\* called, once; the other session is inside the run of the first unit.
C13_Witness ==
  /\ cycles >= 2
  /\ \E s, t \in Sessions :
       /\ Len(out[s].modules) = 2
       /\ out[s].app_mode = <<out[s].modules[2].key>>
       /\ out[s].run_exc = Exc("ValueError", "boom")
       /\ out[s].invoked = <<out[s].modules[2].value.module>>
       /\ out[s].report # <<>>
       /\ out[t].status = "running"
       /\ out[t].app_mode = <<out[t].modules[1].key>>

\* ---- C14
\* What a discovery pass on the listing has produced: the exception it
\* raised, or the registry and the load errors it returned.
C14_Result ==
  [raised |-> out[1].exc, modules |-> cache.modules, errors |-> cache.errors]

\* C14: for every directory and every order in which its entries are
\* listed, discovery produces what it produces for the same entries listed
\* in sorted order: the same units under the same names in the same order
\* and the same load errors in the same order, or the same exception.  So
\* any two listings of one set of entries give the same result.
C14_ListingOrderIndependent ==
  load_count = 1 =>
    C14_Result = discover_and_load_modules(NoExc, SortNames(listing), fs)

\* C14 witness: a returned registry for a listing that gives the tool
\* modules in descending name order, in a directory where two valid modules
\* have the same display name and different metadata and a third one has no
\* run: the winner of the collision and the error list are at stake.
C14_Witness ==
  /\ load_count = 1
  /\ cache.set
  /\ Len(cache.modules) = 1
  /\ Len(cache.errors) = 1
  /\ \A i, j \in 1..Len(listing) :
       (i < j /\ listing[i] \in DOMAIN fs /\ listing[j] \in DOMAIN fs)
         => StrLess(listing[j], listing[i])
  /\ \E f, g \in DOMAIN fs :
       /\ f # g
       /\ fs[f].run = "callable" /\ fs[g].run = "callable"
       /\ fs[f].TOOL_NAME = fs[g].TOOL_NAME
       /\ fs[f].TOOL_ORDER # fs[g].TOOL_ORDER

\* ---- C15
\* A file name carries a number when a digit stands behind the prefix.
C15_HasNumber(f) == \E k \in 5..Len(f) : IsDigit(f[k])

\* C15 as claimed: in every registry discovery returns, every unit whose
\* file name has no number stands behind every unit whose file name carries
\* a number, whatever the number.
C15_UnnumberedLast ==
  cache.set =>
    \A i, j \in 1..Len(cache.modules) :
      ( /\ ~C15_HasNumber(cache.modules[i].value.file)
        /\ C15_HasNumber(cache.modules[j].value.file) ) => j < i

\* ---- C16
\* The cycle of session record o is one in which os.listdir raised.
C16_ScanFailed(o) == o.scan # NoExc

\* C16: in a cycle in which os.listdir raises, the exception leaves
\* discover_and_load_modules as it is and then main, unchanged; from the
\* raise to the end of its main the cycle holds no registry and no error
\* list, shows no guidance, no tool list and no load errors and invokes
\* nothing, also when another session stores a registry in the meantime;
\* and no step of such a cycle stores anything in the cache, not an empty
\* registry either: at the raise the cache is empty and stays so.
C16_ScanFailurePropagates ==
  /\ [](\A s \in Sessions :
          C16_ScanFailed(out[s]) =>
            /\ out[s].status \in {"failing", "raised"}
            /\ out[s].exc = out[s].scan
            /\ out[s].raised_in = "discover_and_load_modules"
            /\ ~out[s].guidance
            /\ out[s].modules = <<>>
            /\ out[s].errors = <<>>
            /\ out[s].options = <<>>
            /\ out[s].sidebar_errors = <<>>
            /\ out[s].app_mode = <<>>
            /\ out[s].invoked = <<>>)
  /\ [][ \A s \in Sessions :
           /\ (out[s].status = "scanning" /\ C16_ScanFailed(out'[s])) =>
                /\ out'[s].status = "failing"
                /\ cache' = NoCache
           /\ (C16_ScanFailed(out[s]) /\ out'[s] # out[s] /\ C16_ScanFailed(out'[s])) =>
                /\ out[s].status = "failing"
                /\ out'[s] = [out[s] EXCEPT !.status = "raised"]
                /\ cache' = cache ]_vars

\* C16 witness: os.listdir raised OSError in the cycle of the first session,
\* whose main has not ended yet; the second session, which waited for that
\* pass, has run a pass of its own and stored a registry with a unit.
C16_Witness ==
  /\ out[1].scan = Exc("OSError", "Permission denied")
  /\ out[1].status = "failing"
  /\ out[1].modules = <<>>
  /\ load_count = 2
  /\ cache.set
  /\ cache.modules # <<>>
  /\ GotRegistry(out[2])

\* ---- C17
\* C17: once a registry is stored, no step of any session's cycle changes
\* it, whatever is selected, whether the selected run returns, raises an
\* error or raises SystemExit, and whatever the other session is doing: the
\* display names and their order, every unit's module, description, order,
\* file and code number, and the load errors stay as they are; a cycle that
\* holds a registry holds the stored one, offers exactly the stored names
\* and lists exactly the stored errors; and the only step of a cycle
\* without a registry is the end of a main whose discovery had raised
\* before the registry was stored.
C17_RegistryReadOnly ==
  [][ cache.set =>
        /\ cache'.set
        /\ DictKeys(cache'.modules) = DictKeys(cache.modules)
        /\ \A i \in 1..Len(cache.modules) :
             /\ cache'.modules[i].value.module = cache.modules[i].value.module
             /\ cache'.modules[i].value.description
                  = cache.modules[i].value.description
             /\ cache'.modules[i].value.order = cache.modules[i].value.order
             /\ cache'.modules[i].value.file = cache.modules[i].value.file
             /\ cache'.modules[i].value.code_number
                  = cache.modules[i].value.code_number
        /\ cache'.errors = cache.errors
        /\ \A s \in Sessions :
             out'[s] # out[s] =>
               /\ GotRegistry(out'[s]) =>
                    /\ out'[s].modules = cache.modules
                    /\ out'[s].errors = cache.errors
               /\ UsedRegistry(out'[s]) =>
                    /\ out'[s].options = DictKeys(cache.modules)
                    /\ out'[s].sidebar_errors = cache.errors
               /\ ~GotRegistry(out'[s]) =>
                    /\ out[s].status = "failing"
                    /\ out'[s] = [out[s] EXCEPT !.status = "raised"] ]_vars

\* C17 witness: after three cycles of two sessions over a stored registry
\* of two units, in which the run of both units has raised, in one session
\* SystemExit: both names are still offered in both sessions.
C17_Witness ==
  /\ cycles = 3
  /\ cache.set
  /\ Len(cache.modules) = 2
  /\ Cardinality(failed) = 2
  /\ \E s \in Sessions : out[s].exc = Exc("SystemExit", "0")
  /\ \A s \in Sessions : out[s].options = DictKeys(cache.modules)

\* ---- C18
\* Every item of the registry r is the unit of a candidate whose import
\* returned and whose run is present and callable, holds that candidate's
\* module, and no load error of the list e names that candidate.
C18_AllUnitsValid(r, e) ==
  \A i \in 1..Len(r) :
    LET f == r[i].value.file IN
    /\ f \in Candidates
    /\ fs[f].imp = NoExc
    /\ fs[f].run = "callable"
    /\ r[i].value.module = SubSeq(f, 1, Len(f) - 3)
    /\ \A k \in 1..Len(e) : e[k].name # r[i].value.module

\* C18: in every reachable state, every entry of the registry, the stored
\* one and the one a cycle's main read, is a unit that resolved and whose
\* run is present and callable; and in every registry discovery returns, a
\* candidate that failed resolution or validation has no unit and has a
\* load error.
C18_OnlyValidUnits ==
  /\ C18_AllUnitsValid(cache.modules, cache.errors)
  /\ \A s \in Sessions : C18_AllUnitsValid(out[s].modules, out[s].errors)
  /\ cache.set =>
       \A f \in Candidates :
         (fs[f].imp # NoExc \/ fs[f].run # "callable") =>
           /\ \A i \in 1..Len(cache.modules) :
                /\ cache.modules[i].value.file # f
                /\ cache.modules[i].value.module # SubSeq(f, 1, Len(f) - 3)
           /\ \E k \in 1..Len(cache.errors) :
                cache.errors[k].name = SubSeq(f, 1, Len(f) - 3)

\* C18 witness: a directory with a valid module, a module whose run is not
\* callable and a module whose import failed: a registry of one unit, which
\* was invoked, and two load errors.
C18_Witness ==
  /\ cache.set
  /\ Len(cache.modules) = 1
  /\ Len(cache.errors) = 2
  /\ \E f, g \in Candidates :
       /\ fs[f].imp = NoExc /\ fs[f].run = "notcallable"
       /\ fs[g].imp # NoExc
  /\ out[1].invoked = <<cache.modules[1].value.module>>

\* ---- C19
\* C19: in every registry discovery returns, each candidate either failed
\* (its import raised, or its run is missing or not callable) and then has
\* exactly one load error and no entry, or it was stored under its display
\* name and then has no load error, and the entry of that name is its own
\* unless a later candidate of the same name replaced it; the load errors
\* are as many as the failed candidates, the entries as many as the display
\* names of the others, so that errors plus entries never exceed the
\* candidates; and every cycle over the registry lists all the load errors.
C19_EveryCandidateAccounted ==
  /\ cache.set =>
       /\ \A f \in Candidates :
            \/ /\ ~Valid(f)
               /\ Cardinality(ErrorsFor(cache.errors, f)) = 1
               /\ EntriesOf(cache.modules, f) = {}
            \/ /\ Valid(f)
               /\ ErrorsFor(cache.errors, f) = {}
               /\ Cardinality(EntriesNamed(cache.modules, NameOf(f))) = 1
               /\ Cardinality(EntriesOf(cache.modules, f)) =
                    IF \E g \in SameName(f) : StrLess(f, g) THEN 0 ELSE 1
       /\ Len(cache.errors) = Cardinality({f \in Candidates : ~Valid(f)})
       /\ Len(cache.modules) =
            Cardinality({NameOf(f) : f \in {g \in Candidates : Valid(g)}})
       /\ Len(cache.errors) + Len(cache.modules) <= Cardinality(Candidates)
       /\ GotRegistry(out[1])
  /\ \A s \in Sessions :
       UsedRegistry(out[s]) => out[s].sidebar_errors = cache.errors

\* C19 witness: the second cycle over a registry made from three candidates:
\* two valid ones of the same display name, of which the later one holds the
\* entry, and one without run; one entry, one load error, listed again.
C19_Witness ==
  /\ cache.set
  /\ cycles = 2
  /\ Cardinality(Candidates) = 3
  /\ Len(cache.modules) = 1
  /\ Len(cache.errors) = 1
  /\ Cardinality({f \in Candidates : Valid(f)}) = 2
  /\ Ended(out[1])
  /\ out[1].sidebar_errors = cache.errors

====
